---- MODULE Spec2Model ----
(***************************************************************************)
(* Model of the question-answering pipeline of app/main.py: the intent     *)
(* short-circuits (is_greeting, is_unrelated_topic, the short-query        *)
(* check), the confidence gate and answer selection (select_best_answer),  *)
(* the lru_cache around smart_search, and get_answer / clear_cache running *)
(* on the executor's worker threads and the event loop.                    *)
(*                                                                         *)
(* Texts are sequences of one-character strings.  Similarity scores and    *)
(* confidences are fixed-point numbers in thousandths (0.20 is 200).       *)
(***************************************************************************)
EXTENDS Integers, Sequences, FiniteSets, TLC

VARIABLES
    cache,        \* lru_cache entries of cached_smart_search, least recently used first
    lru_hits,     \* cached_smart_search.cache_info().hits
    cache_stats,  \* the module-level dict {"hits", "misses"}
    worker,       \* per executor thread: position in get_answer and its locals
    loop_pc,      \* position of the event loop inside clear_cache
    last,         \* the outcome of the most recently finished get_answer call
    calls,        \* the number of /chat requests received so far
    cq,           \* ClassifySpec: the raw question handed to get_answer's pipeline
    cv,           \* ClassifySpec: what smart_search returned for it
    sq,           \* SelectSpec: the query handed to select_best_answer
    sresults,     \* SelectSpec: the (chunk, score) list handed to it
    sout          \* SelectSpec: what select_best_answer returned

vars == <<cache, lru_hits, cache_stats, worker, loop_pc, last, calls,
          cq, cv, sq, sresults, sout>>
serverVars == <<cache, lru_hits, cache_stats, worker, loop_pc, last, calls>>
pureVars == <<cq, cv, sq, sresults, sout>>
classifyVars == <<cq, cv>>
selectVars == <<sq, sresults, sout>>

\* An optional value is a sequence of no or one element.
None == <<>>
Some(v) == <<v>>

(***************************************************************************)
(* Python str operations used by the code.                                 *)
(***************************************************************************)
LowerAlpha ==
    <<"a","b","c","d","e","f","g","h","i","j","k","l","m",
      "n","o","p","q","r","s","t","u","v","w","x","y","z">>
UpperAlpha ==
    <<"A","B","C","D","E","F","G","H","I","J","K","L","M",
      "N","O","P","Q","R","S","T","U","V","W","X","Y","Z">>
DigitChars == {"0","1","2","3","4","5","6","7","8","9"}
Whitespace == {" ", "\t", "\n"}

Range(s) == {s[i] : i \in 1..Len(s)}
UpperChars == Range(UpperAlpha)

\* \s of the re module, and what str.strip() and str.split() take for blank
IsSpace(c) == c \in Whitespace

\* \w of the re module: letters, digits and the underscore
WordChars == Range(LowerAlpha) \cup Range(UpperAlpha) \cup DigitChars \cup {"_"}
IsWordChar(c) == c \in WordChars

LowerOf == [c \in UpperChars |-> LowerAlpha[CHOOSE i \in 1..Len(UpperAlpha) : UpperAlpha[i] = c]]
LowerChar(c) == IF c \in UpperChars THEN LowerOf[c] ELSE c

\* str.lower()
str_lower(s) == [i \in 1..Len(s) |-> LowerChar(s[i])]

\* str.strip(): drop leading and trailing whitespace
str_strip(s) ==
    LET keep == {i \in 1..Len(s) : ~IsSpace(s[i])}
    IN  IF keep = {} THEN <<>>
        ELSE LET lo == CHOOSE i \in keep : \A j \in keep : i <= j
                 hi == CHOOSE i \in keep : \A j \in keep : i >= j
             IN  SubSeq(s, lo, hi)

\* len(str.split()): the number of whitespace-delimited words
WordCount(s) ==
    Cardinality({i \in 1..Len(s) : ~IsSpace(s[i]) /\ (i = 1 \/ IsSpace(s[i-1]))})

\* str.startswith(p)
StartsWith(s, p) == Len(p) <= Len(s) /\ \A j \in 1..Len(p) : s[j] = p[j]

\* str.endswith(p)
EndsWith(s, p) == Len(p) <= Len(s) /\ \A j \in 1..Len(p) : s[Len(s) - Len(p) + j] = p[j]

\* p in s: substring containment
Contains(s, p) == \E i \in 0..(Len(s) - Len(p)) : \A j \in 1..Len(p) : s[i + j] = p[j]

\* re.sub(r'[^\w\s]', ' ', s): punctuation turned into blanks rather than removed
RemovePunctToSpace(s) ==
    [i \in 1..Len(s) |-> IF IsWordChar(s[i]) \/ IsSpace(s[i]) THEN s[i] ELSE " "]

\* re.sub(r'[^\w\s]', '', s)
RemovePunct(s) == SelectSeq(s, LAMBDA c : IsWordChar(c) \/ IsSpace(c))

\* re.sub(r'\s+', ' ', s)
CollapseSpaces(s) ==
    LET F[i \in 0..Len(s)] ==
            IF i = 0 THEN <<>>
            ELSE IF IsSpace(s[i])
                 THEN IF i > 1 /\ IsSpace(s[i-1]) THEN F[i-1] ELSE Append(F[i-1], " ")
                 ELSE Append(F[i-1], s[i])
    IN  F[Len(s)]

(***************************************************************************)
(* Configuration and fixed texts (main.py lines 42-77).                    *)
(***************************************************************************)
SIMILARITY_THRESHOLD == 200
STRICT_THRESHOLD == 220
TOP_K == 5

GREETING_PATTERNS ==
    { <<"h","i">>
    , <<"h","i","i">>
    , <<"h","i","i","i">>
    , <<"h","e","l","l","o">>
    , <<"h","e","l","o">>
    , <<"h","e","l","l","o","w">>
    , <<"h","e","y">>
    , <<"h","e","y","a">>
    , <<"g","o","o","d"," ","m","o","r","n","i","n","g">>
    , <<"g","o","o","d"," ","a","f","t","e","r","n","o","o","n">>
    , <<"g","o","o","d"," ","e","v","e","n","i","n","g">>
    , <<"g","o","o","d"," ","n","i","g","h","t">>
    , <<"m","o","r","n","i","n","g">>
    , <<"a","f","t","e","r","n","o","o","n">>
    , <<"e","v","e","n","i","n","g">>
    , <<"n","i","g","h","t">>
    , <<"n","a","m","a","s","t","e">>
    , <<"n","a","m","a","s","k","a","r">>
    , <<"n","a","m","a","s","k","a","r","a","m">>
    , <<"h","o","w","d","y">>
    , <<"g","r","e","e","t","i","n","g","s">>
    , <<"s","u","p">>
    , <<"w","a","s","s","u","p">>
    , <<"w","h","a","t","s","u","p">>
    , <<"y","o">>
    , <<"h","a","i">>
    , <<"h","a","i","i">>
    , <<"h","l","o">>
    , <<"h","l","w">>
    }

UNRELATED_TOPICS ==
    { <<"c","o","d","i","n","g">>
    , <<"p","r","o","g","r","a","m","m","i","n","g">>
    , <<"p","y","t","h","o","n">>
    , <<"j","a","v","a">>
    , <<"j","a","v","a","s","c","r","i","p","t">>
    , <<"h","t","m","l">>
    , <<"c","s","s">>
    , <<"c","+","+">>
    , <<"s","o","f","t","w","a","r","e">>
    , <<"w","e","b","s","i","t","e">>
    , <<"a","p","p"," ","d","e","v","e","l","o","p","m","e","n","t">>
    , <<"m","a","c","h","i","n","e"," ","l","e","a","r","n","i","n","g">>
    , <<"a","i"," ","c","o","u","r","s","e">>
    , <<"w","e","a","t","h","e","r">>
    , <<"n","e","w","s">>
    , <<"c","r","i","c","k","e","t">>
    , <<"f","o","o","t","b","a","l","l">>
    , <<"m","o","v","i","e">>
    , <<"s","o","n","g">>
    , <<"m","u","s","i","c">>
    , <<"r","e","c","i","p","e">>
    , <<"c","o","o","k","i","n","g">>
    , <<"f","o","o","d">>
    , <<"r","e","s","t","a","u","r","a","n","t">>
    , <<"c","o","l","l","e","g","e">>
    , <<"u","n","i","v","e","r","s","i","t","y">>
    , <<"d","e","g","r","e","e">>
    , <<"m","b","b","s">>
    , <<"e","n","g","i","n","e","e","r","i","n","g"," ","e","n","t","r","a","n","c","e">>
    , <<"n","e","e","t">>
    , <<"u","p","s","c">>
    , <<"s","s","c">>
    , <<"b","a","n","k"," ","e","x","a","m">>
    , <<"g","o","v","e","r","n","m","e","n","t"," ","j","o","b">>
    , <<"j","o","k","e">>
    , <<"s","t","o","r","y">>
    , <<"g","a","m","e">>
    , <<"p","l","a","y">>
    }


\* The three fixed response texts, each kept as a one-token text.
GREETING_RESPONSE == <<"Hello, welcome to Nova - My Mentor. How can I help you today?">>
FALLBACK_RESPONSE == <<"I don't have specific information about that in my knowledge base.">>
CLARIFICATION_RESPONSE == <<"Could you please provide more details?">>


(***************************************************************************)
(* Intent short-circuits.                                                  *)
(***************************************************************************)
\* A variant that matches only a query that is exactly a topic.
is_unrelated_topic_exact(text) == str_lower(text) \in UNRELATED_TOPICS

is_unrelated_topic(text) ==
    LET text_lower == str_lower(text)
    IN  \E topic \in UNRELATED_TOPICS : Contains(text_lower, topic)

\* The exact-match check and the start-of-a-short-query check
GreetingMatch(text_clean) ==
    \/ text_clean \in GREETING_PATTERNS
    \/ /\ WordCount(text_clean) <= 3
       /\ \E greeting \in GREETING_PATTERNS : StartsWith(text_clean, greeting)

\* A variant that turns punctuation into blanks instead of removing it.
is_greeting_blank(text) ==
    LET text_lower == str_strip(str_lower(text))
        text_clean == CollapseSpaces(str_strip(RemovePunctToSpace(text_lower)))
    IN  GreetingMatch(text_clean)

is_greeting(text) ==
    LET text_lower == str_strip(str_lower(text))
        text_clean == CollapseSpaces(str_strip(RemovePunct(text_lower)))
    IN  GreetingMatch(text_clean)

(***************************************************************************)
(* The Chunk Store (loaded once at startup, line 23).                       *)
(***************************************************************************)
Repeat(s, n) == [i \in 1..(n * Len(s)) |-> s[((i - 1) % Len(s)) + 1]]

\* The Chunk Store: a header, a fragment, a plain line, an explanatory line,
\* a medium-length passage (more than 80 characters) and a long one (more than 150).
chunks ==
    << <<"F","e","e","s",":">>,
       <<"N","o","v","a"," ","h","e","l","p","s"," ","y","o","u"," ","l","e","a","r","n">>,
       <<"N","o","v","a"," ","M","y"," ","M","e","n","t","o","r"," ","s","t","u","d","y"," ","p","l","a","n"," ","d","a","i","l","y">>,
       <<"N","o","v","a"," ","p","r","o","v","i","d","e","s"," ","a"," ","t","r","u","s","t","e","d"," ","d","i","g","i","t","a","l"," ","l","e","a","r","n","i","n","g"," ","c","o","m","p","a","n","i","o","n">>,
       <<"N","o","v","a"," ","M","y"," ","M","e","n","t","o","r"," ","s","t","u","d","y"," ","p","l","a","n"," ","d","a","i","l","y">> \o Repeat(<<" ","d","a","i","l","y">>, 10),
       <<"N","o","v","a"," ","s","u","p","p","o","r","t","s"," ","e","v","e","r","y"," ","s","t","u","d","e","n","t">> \o Repeat(<<" ","d","a","i","l","y">>, 25) >>

(***************************************************************************)
(* The confidence gate and answer selection.                               *)
(***************************************************************************)
EXPLANATORY_WORDS ==
    { <<"i","s">>, <<"a","r","e">>, <<"h","e","l","p","s">>, <<"p","r","o","v","i","d","e","s">>, <<"s","u","p","p","o","r","t","s">>,
      <<"i","n","c","l","u","d","e","s">>, <<"o","f","f","e","r","s">>, <<"d","e","s","i","g","n","e","d">>, <<"c","a","n">>, <<"a","l","l","o","w","s">> }

\* A variant that applies the base threshold whatever the query's length.
ThresholdBaseOnly(query) == SIMILARITY_THRESHOLD

\* The threshold of a query: strict below three words (lines 128-129)
Threshold(query) ==
    IF WordCount(query) < 3 THEN STRICT_THRESHOLD ELSE SIMILARITY_THRESHOLD

\* score >= threshold * 0.95
InBand(score, threshold) == score * 100 >= threshold * 95

\* The adjustments the loop makes to a candidate's score (lines 151-166)
quality_adjust(chunk) ==
    LET chunk_lower == str_lower(chunk)
        chunk_strip == str_strip(chunk)
    IN  (IF Len(chunk) > 80 THEN 30 ELSE 0)
        + (IF Len(chunk) > 150 THEN 20 ELSE 0)
        + (IF \E word \in EXPLANATORY_WORDS : Contains(chunk_lower, word) THEN 20 ELSE 0)
        - (IF EndsWith(chunk_strip, <<":">>) THEN 100 ELSE 0)
        - (IF WordCount(chunk) < 6 THEN 50 ELSE 0)

\* The adjustments of the Chunk Store's texts, computed once
QualityAdjust == [c \in Range(chunks) |-> quality_adjust(c)]

\* The quality score of one candidate (line 149, then the adjustments)
quality_score(chunk, score) == score + QualityAdjust[chunk]

\* A variant of the loop that replaces the best answer on an equal quality score.
BestOfKeepLast(confident_results, best_chunk) ==
    LET F[i \in 0..Len(confident_results)] ==
            IF i = 0 THEN [best_answer |-> best_chunk, best_quality_score |-> 0]
            ELSE LET q == quality_score(confident_results[i].chunk,
                                        confident_results[i].score)
                 IN  IF q >= F[i-1].best_quality_score
                     THEN [best_answer |-> confident_results[i].chunk,
                           best_quality_score |-> q]
                     ELSE F[i-1]
    IN  F[Len(confident_results)].best_answer

\* The loop over the band (lines 145-170)
BestOf(confident_results, best_chunk) ==
    LET F[i \in 0..Len(confident_results)] ==
            IF i = 0 THEN [best_answer |-> best_chunk, best_quality_score |-> 0]
            ELSE LET q == quality_score(confident_results[i].chunk,
                                        confident_results[i].score)
                 IN  IF q > F[i-1].best_quality_score
                     THEN [best_answer |-> confident_results[i].chunk,
                           best_quality_score |-> q]
                     ELSE F[i-1]
    IN  F[Len(confident_results)].best_answer

Selection(answer, confidence, is_confident) ==
    [answer |-> answer, confidence |-> confidence, is_confident |-> is_confident]

\* A variant whose gate compares the top score with the band's lower edge.
select_best_answer_band_gate(results, query) ==
    IF results = <<>> THEN Selection(FALLBACK_RESPONSE, 0, FALSE)
    ELSE LET threshold == Threshold(query)
             best_chunk == results[1].chunk
             best_score == results[1].score
             confident_results == SelectSeq(results, LAMBDA r : InBand(r.score, threshold))
         IN  IF ~InBand(best_score, threshold)
             THEN Selection(FALLBACK_RESPONSE, best_score, FALSE)
             ELSE IF confident_results = <<>>
                  THEN Selection(FALLBACK_RESPONSE, best_score, FALSE)
                  ELSE Selection(BestOf(confident_results, best_chunk), best_score, TRUE)

select_best_answer(results, query) ==
    IF results = <<>> THEN Selection(FALLBACK_RESPONSE, 0, FALSE)
    ELSE LET threshold == Threshold(query)
             best_chunk == results[1].chunk
             best_score == results[1].score
             confident_results == SelectSeq(results, LAMBDA r : InBand(r.score, threshold))
         IN  IF best_score < threshold
             THEN Selection(FALLBACK_RESPONSE, best_score, FALSE)
             ELSE IF confident_results = <<>>
                  THEN Selection(FALLBACK_RESPONSE, best_score, FALSE)
                  ELSE Selection(BestOf(confident_results, best_chunk), best_score, TRUE)

(***************************************************************************)
(* smart_search: the short-circuits, then encoding and index lookup.       *)
(***************************************************************************)
\* model.encode(question) (line 200): the query vector of a question.
model_encode(question) == [vector_of |-> question]

\* app/faiss_store.py: search_top_k raises RuntimeError whatever it is given.
search_top_k(query_vector, k) == "RuntimeError"

Outcome(raised, answer, was_greeting, confidence, is_confident) ==
    [raised |-> raised, answer |-> answer, was_greeting |-> was_greeting,
     confidence |-> confidence, is_confident |-> is_confident]

\* An exception leaving the call: there is no return value.
Raised == Outcome(TRUE, <<>>, FALSE, 0, FALSE)

\* Steps 4 and 5 of smart_search (lines 199-215); nothing in it catches an exception.
Retrieve(question) ==
    LET query_vector == model_encode(question)
        results == search_top_k(query_vector, TOP_K)
    IN  IF results = "RuntimeError" THEN Raised
        ELSE LET sel == select_best_answer(results, question)
             IN  Outcome(FALSE, sel.answer, FALSE, sel.confidence, sel.is_confident)

smart_search(question) ==
    IF is_greeting(question) THEN Outcome(FALSE, GREETING_RESPONSE, TRUE, 1000, TRUE)
    ELSE IF is_unrelated_topic(question)
         THEN Outcome(FALSE, FALLBACK_RESPONSE, FALSE, 0, FALSE)
         ELSE IF Len(str_strip(question)) < 2
              THEN Outcome(FALSE, CLARIFICATION_RESPONSE, FALSE, 0, FALSE)
              ELSE Retrieve(question)

\* The cache key get_answer passes on: question.lower().strip() (line 229)
NormalizeKey(question) == str_strip(str_lower(question))

(***************************************************************************)
(* The lru_cache of cached_smart_search (line 220).  An entry is a key and *)
(* the value smart_search returned for it; the sequence runs from the      *)
(* least to the most recently used entry.                                  *)
(***************************************************************************)
\* maxsize of the lru_cache, scaled down from 1000
maxsize == 2

CachedKeys(c) == {c[i].key : i \in 1..Len(c)}
IndexOfKey(c, key) == CHOOSE i \in 1..Len(c) : c[i].key = key
ValueOfKey(c, key) == c[IndexOfKey(c, key)].value

\* A hit moves the entry to the most recently used end
LruTouch(c, key) ==
    LET i == IndexOfKey(c, key)
    IN  SubSeq(c, 1, i - 1) \o SubSeq(c, i + 1, Len(c)) \o <<c[i]>>

\* A variant that stores without discarding the oldest entry of a full cache.
LruStoreNoEvict(c, key, value) ==
    IF key \in CachedKeys(c) THEN c
    ELSE Append(c, [key |-> key, value |-> value])

\* After the wrapped call returned: a key another thread stored meanwhile is left
\* as it is; a full cache discards its oldest entry to admit the new one.
LruStore(c, key, value) ==
    IF key \in CachedKeys(c) THEN c
    ELSE IF Len(c) >= maxsize
         THEN Append(Tail(c), [key |-> key, value |-> value])
         ELSE Append(c, [key |-> key, value |-> value])

(***************************************************************************)
(* The server: /chat runs get_answer on a thread of the executor; the      *)
(* event loop runs clear_cache.  A thread switch may fall between any two  *)
(* statements, and between the read and the write of a += on cache_stats.  *)
(***************************************************************************)
\* max_workers of the executor, scaled down from 4
NumWorkers == 2
Workers == 1..NumWorkers

\* The questions the clients of Spec send: a greeting, an unrelated topic and
\* a knowledge-base question
RaceQuestions == { <<"h","i">>, <<"t","e","l","l"," ","m","e"," ","a"," ","j","o","k","e">>, <<"w","h","a","t"," ","i","s"," ","n","o","v","a">> }

\* The questions the clients of SeqSpec send: also a one-character query, a
\* second unrelated topic, and the greeting in a second spelling with the same
\* cache key
SeqQuestions == RaceQuestions \cup { <<"?">>, <<"s","s","c"," ","e","x","a","m">>, <<" ","H","i"," ">> }

\* The number of /chat requests a behaviour holds
MaxCalls == 4

IdleWorker ==
    [pc |-> "idle", question |-> <<>>, hits0 |-> 0, served |-> FALSE,
     ret |-> None, was_cached |-> FALSE, tmp |-> 0]

KeyOf(t) == NormalizeKey(worker[t].question)

\* was_cached selects the counter get_answer increments (lines 234-237)
StatOf(t) == IF worker[t].was_cached THEN "hits" ELSE "misses"

\* What a finished call gave its caller: the tuple get_answer returned, or
\* the exception that left it
CallOutcome(t, raised) ==
    [key |-> KeyOf(t), raised |-> raised, served |-> worker[t].served,
     verdict |-> worker[t].ret, cached |-> worker[t].was_cached]

Init ==
    /\ cache = <<>>
    /\ lru_hits = 0
    /\ cache_stats = [hits |-> 0, misses |-> 0]
    /\ worker = [t \in Workers |-> IdleWorker]
    /\ loop_pc = "idle"
    /\ last = None
    /\ calls = 0
    /\ cq = <<>> /\ cv = None
    /\ sq = <<>> /\ sresults = <<>> /\ sout = None

\* chat hands get_answer(q.question) to the executor (lines 263-268); the call
\* begins with cache_info = cached_smart_search.cache_info() (line 227)
Start(t, q) ==
    /\ worker[t].pc = "idle"
    /\ calls < MaxCalls
    /\ calls' = calls + 1
    /\ worker' = [worker EXCEPT ![t] = [IdleWorker EXCEPT !.pc = "lookup",
                                                          !.question = q,
                                                          !.hits0 = lru_hits]]
    /\ UNCHANGED <<cache, lru_hits, cache_stats, loop_pc, last, pureVars>>

\* cached_smart_search(key), the wrapper's lookup (line 229): a hit returns the
\* stored value, a miss goes on to call smart_search
Lookup(t) ==
    /\ worker[t].pc = "lookup"
    /\ IF KeyOf(t) \in CachedKeys(cache)
       THEN /\ lru_hits' = lru_hits + 1
            /\ cache' = LruTouch(cache, KeyOf(t))
            /\ worker' = [worker EXCEPT ![t].ret = Some(ValueOfKey(cache, KeyOf(t))),
                                        ![t].served = TRUE,
                                        ![t].pc = "info2"]
       ELSE /\ worker' = [worker EXCEPT ![t].pc = "call"]
            /\ UNCHANGED <<cache, lru_hits>>
    /\ UNCHANGED <<cache_stats, loop_pc, last, calls, pureVars>>

\* smart_search(key) runs (line 223): its value is stored and returned; its
\* exception leaves cached_smart_search, get_answer and chat, with nothing
\* stored and no counter of cache_stats touched
Call(t) ==
    /\ worker[t].pc = "call"
    /\ LET value == smart_search(KeyOf(t))
       IN  IF value.raised
           THEN /\ last' = Some(CallOutcome(t, TRUE))
                /\ worker' = [worker EXCEPT ![t] = IdleWorker]
                /\ UNCHANGED cache
           ELSE /\ cache' = LruStore(cache, KeyOf(t), value)
                /\ worker' = [worker EXCEPT ![t].ret = Some(value), ![t].pc = "info2"]
                /\ UNCHANGED last
    /\ UNCHANGED <<lru_hits, cache_stats, loop_pc, calls, pureVars>>

\* new_cache_info = ...cache_info(); was_cached = new.hits > old.hits (231-232)
ReadInfo2(t) ==
    /\ worker[t].pc = "info2"
    /\ worker' = [worker EXCEPT ![t].was_cached = (lru_hits > worker[t].hits0),
                                ![t].pc = "load_stat"]
    /\ UNCHANGED <<cache, lru_hits, cache_stats, loop_pc, last, calls, pureVars>>

\* cache_stats[...] += 1, the read (lines 235, 237)
LoadStat(t) ==
    /\ worker[t].pc = "load_stat"
    /\ worker' = [worker EXCEPT ![t].tmp = cache_stats[StatOf(t)], ![t].pc = "store_stat"]
    /\ UNCHANGED <<cache, lru_hits, cache_stats, loop_pc, last, calls, pureVars>>

\* cache_stats[...] += 1, the write (lines 235, 237); get_answer returns
\* (line 239) and chat answers the request
StoreStat(t) ==
    /\ worker[t].pc = "store_stat"
    /\ cache_stats' = [cache_stats EXCEPT ![StatOf(t)] = worker[t].tmp + 1]
    /\ last' = Some(CallOutcome(t, FALSE))
    /\ worker' = [worker EXCEPT ![t] = IdleWorker]
    /\ UNCHANGED <<cache, lru_hits, loop_pc, calls, pureVars>>

\* cached_smart_search.cache_clear() (line 315): entries and the cache's own counters
ClearEntries ==
    /\ loop_pc = "idle"
    /\ cache' = <<>>
    /\ lru_hits' = 0
    /\ loop_pc' = "reset_hits"
    /\ last' = None
    /\ UNCHANGED <<cache_stats, worker, calls, pureVars>>

\* cache_stats["hits"] = 0 (line 316)
ResetHits ==
    /\ loop_pc = "reset_hits"
    /\ cache_stats' = [cache_stats EXCEPT !.hits = 0]
    /\ loop_pc' = "reset_misses"
    /\ UNCHANGED <<cache, lru_hits, worker, last, calls, pureVars>>

\* cache_stats["misses"] = 0 (line 317), and clear_cache returns
ResetMisses ==
    /\ loop_pc = "reset_misses"
    /\ cache_stats' = [cache_stats EXCEPT !.misses = 0]
    /\ loop_pc' = "idle"
    /\ UNCHANGED <<cache, lru_hits, worker, last, calls, pureVars>>

\* Spec: get_answer calls on the worker threads and clear_cache on the event
\* loop, interleaved statement by statement
Next ==
    \/ \E t \in Workers : \E q \in RaceQuestions : Start(t, q)
    \/ \E t \in Workers : Lookup(t)
    \/ \E t \in Workers : Call(t)
    \/ \E t \in Workers : ReadInfo2(t)
    \/ \E t \in Workers : LoadStat(t)
    \/ \E t \in Workers : StoreStat(t)
    \/ ClearEntries
    \/ ResetHits
    \/ ResetMisses

Spec == Init /\ [][Next]_vars

\* SeqSpec: one request at a time; a call, or a clear, runs to its end before
\* the next begins
AllIdleBut(t) == loop_pc = "idle" /\ \A u \in Workers \ {t} : worker[u].pc = "idle"
AllIdle == \A u \in Workers : worker[u].pc = "idle"

SeqNext ==
    \/ \E t \in Workers : \E q \in SeqQuestions : AllIdleBut(t) /\ Start(t, q)
    \/ \E t \in Workers : AllIdleBut(t) /\ Lookup(t)
    \/ \E t \in Workers : AllIdleBut(t) /\ Call(t)
    \/ \E t \in Workers : AllIdleBut(t) /\ ReadInfo2(t)
    \/ \E t \in Workers : AllIdleBut(t) /\ LoadStat(t)
    \/ \E t \in Workers : AllIdleBut(t) /\ StoreStat(t)
    \/ AllIdle /\ ClearEntries
    \/ AllIdle /\ ResetHits
    \/ AllIdle /\ ResetMisses

SeqSpec == Init /\ [][SeqNext]_vars

(***************************************************************************)
(* ClassifySpec: the pipeline's classification applied to every question   *)
(* over a small alphabet.                                                  *)
(***************************************************************************)
MaxQuestionLen == 5
QuestionChars == {"h", "i", "H", "s", "c", " ", "+"}
Questions == UNION {[1..n -> QuestionChars] : n \in 0..MaxQuestionLen}

\* The server is left out of the specifications of the pure functions
ServerIdle ==
    /\ cache = <<>>
    /\ lru_hits = 0
    /\ cache_stats = [hits |-> 0, misses |-> 0]
    /\ worker = <<>>
    /\ loop_pc = "idle"
    /\ last = None
    /\ calls = 0

ClassifyInit ==
    /\ cq \in Questions
    /\ cv = None
    /\ ServerIdle
    /\ sq = <<>> /\ sresults = <<>> /\ sout = None

Classify ==
    /\ cv = None
    /\ cv' = Some(smart_search(NormalizeKey(cq)))
    /\ UNCHANGED <<cq, serverVars, selectVars>>

ClassifyNext == Classify

ClassifySpec == ClassifyInit /\ [][ClassifyNext]_vars

(***************************************************************************)
(* SelectSpec: select_best_answer applied to ranked candidate lists over   *)
(* a small Chunk Store.                                                    *)
(***************************************************************************)
Scores == {-100, 189, 190, 200, 208, 209, 220, 250}

MaxCands == 3

\* A ranking of n candidates: each chunk of the store at most once, scores
\* descending, as the index returns them.
IsRanking(cs, ss, n) ==
    /\ \A i, j \in 1..n : i # j => cs[i] # cs[j]
    /\ \A i, j \in 1..n : i < j => ss[i] >= ss[j]

SelectQueries ==
    { <<"n","o","v","a">>, <<"n","o","v","a"," ","f","e","e","s">>, <<"w","h","a","t"," ","i","s"," ","n","o","v","a">>, <<" ","w","h","a","t"," "," ","a","r","e"," ","t","h","e"," ","f","e","e","s"," ">> }

SelectInit ==
    /\ \E n \in 0..MaxCands :
         \E cs \in [1..n -> 1..Len(chunks)], ss \in [1..n -> Scores] :
            /\ IsRanking(cs, ss, n)
            /\ sresults = [i \in 1..n |-> [chunk |-> chunks[cs[i]], score |-> ss[i]]]
    /\ sq \in SelectQueries
    /\ sout = None
    /\ ServerIdle
    /\ cq = <<>> /\ cv = None

Select ==
    /\ sout = None
    /\ sout' = Some(select_best_answer(sresults, sq))
    /\ UNCHANGED <<sq, sresults, serverVars, classifyVars>>

SelectNext == Select

SelectSpec == SelectInit /\ [][SelectNext]_vars

(***************************************************************************)
(* Properties of the pipeline entry point and its cache.                   *)
(***************************************************************************)
\* The values get_answer's verdicts take
DefinedAnswers == {GREETING_RESPONSE, FALLBACK_RESPONSE, CLARIFICATION_RESPONSE} \cup Range(chunks)

\* A worker whose call has fixed the tuple it is about to return
AboutToReturn(t) == worker[t].pc \in {"load_stat", "store_stat"}

\* C1 (SeqSpec): no get_answer call ends in an exception: every finished call
\* gave its caller a verdict with one of the defined answers.
C1_NeverRaises ==
    last # None =>
        /\ last[1].raised = FALSE
        /\ last[1].verdict # None
        /\ last[1].verdict[1].answer \in DefinedAnswers

\* C2 (SeqSpec): every call yields a verdict; a call on a query that is not
\* cached reports cached = false; and a call that follows a call with the same
\* normalized query, with no clear in between, returns the same verdict with
\* cached = true.
C2_Idempotent ==
    /\ last # None => last[1].raised = FALSE
    /\ \A t \in Workers :
          AboutToReturn(t) =>
             /\ ~worker[t].served => worker[t].was_cached = FALSE
             /\ (last # None /\ last[1].key = KeyOf(t)) =>
                   /\ worker[t].ret = last[1].verdict
                   /\ worker[t].was_cached = TRUE

\* C7 (SeqSpec): the cache never holds more than maxsize entries, and a call
\* whose query was found in the cache reports cached = true.
C7_CacheBound ==
    /\ Len(cache) <= maxsize
    /\ \A t \in Workers :
          (AboutToReturn(t) /\ worker[t].served) => worker[t].was_cached = TRUE
    /\ (last # None /\ last[1].served) => last[1].cached = TRUE

\* C7 witness: more than maxsize distinct queries were stored since the cache
\* was last empty, the cache is full, and the last call was a hit.
C7_Witness ==
    /\ cache_stats.misses > maxsize
    /\ Len(cache) = maxsize
    /\ last # None
    /\ last[1].served
    /\ last[1].cached

\* C8 (Spec): no get_answer writes to a counter of cache_stats a value it
\* derived from a read made before clear_cache reset that counter: the value a
\* worker is about to increment is never above the counter's present value.
C8_NoStaleCounterWrite ==
    \A t \in Workers :
        worker[t].pc = "store_stat" => worker[t].tmp <= cache_stats[StatOf(t)]

\* C10 (Spec): a call reports cached = true only if its own lookup was served
\* from the cache; a call that computed smart_search itself reports cached =
\* false and increments the miss counter.
C10_CachedOnlyIfServed ==
    \A t \in Workers :
        (AboutToReturn(t) /\ ~worker[t].served) =>
            /\ worker[t].was_cached = FALSE
            /\ StatOf(t) = "misses"

(***************************************************************************)
(* Properties of the classification (ClassifySpec).                        *)
(***************************************************************************)
\* The normalized form of a query: lower-cased, punctuation stripped,
\* whitespace trimmed and collapsed.
NormalForm(q) == CollapseSpaces(str_strip(RemovePunct(str_strip(str_lower(q)))))

GreetingVerdict == Outcome(FALSE, GREETING_RESPONSE, TRUE, 1000, TRUE)
FallbackVerdict == Outcome(FALSE, FALLBACK_RESPONSE, FALSE, 0, FALSE)

\* C5: a query whose normalized form is exactly a greeting phrase gets the
\* Greeting verdict: the fixed greeting text, confidence 1.0, is_confident true,
\* and nothing raised, so neither the encoder nor the index was reached.
C5_ExactGreetingIsGreeting ==
    (cv # None /\ NormalForm(cq) \in GREETING_PATTERNS) => cv[1] = GreetingVerdict

\* C5 witness: a classified query that becomes a greeting phrase only through
\* lower-casing, trimming and punctuation removal.
C5_Witness ==
    /\ cv # None
    /\ NormalForm(cq) \in GREETING_PATTERNS
    /\ cq \notin GREETING_PATTERNS
    /\ \E i \in 1..Len(cq) : ~IsWordChar(cq[i]) /\ ~IsSpace(cq[i])
    /\ cv[1].was_greeting

\* C6: a query whose lower-cased text contains an unrelated-topic marker and
\* that is not a greeting gets the Fallback verdict with confidence 0.0 and
\* is_confident false, whatever its length.
C6_UnrelatedIsFallback ==
    ( /\ cv # None
      /\ \E topic \in UNRELATED_TOPICS : Contains(str_lower(cq), topic)
      /\ ~is_greeting(NormalizeKey(cq)) )
    => cv[1] = FallbackVerdict

\* C6 witness: a classified query that holds a marker inside a longer text.
C6_Witness ==
    /\ cv # None
    /\ \E topic \in UNRELATED_TOPICS : Contains(str_lower(cq), topic)
    /\ NormalizeKey(cq) \notin UNRELATED_TOPICS
    /\ ~is_greeting(NormalizeKey(cq))
    /\ cv[1] = FallbackVerdict

(***************************************************************************)
(* Properties of select_best_answer (SelectSpec).                          *)
(***************************************************************************)
\* The threshold the gate is to apply to a query, in the words of the contract
GateThreshold(q) == IF WordCount(q) < 3 THEN STRICT_THRESHOLD ELSE SIMILARITY_THRESHOLD

\* The positions of the near-top band of a candidate list
BandOf(results, q) ==
    {i \in 1..Len(results) : results[i].score * 100 >= GateThreshold(q) * 95}

QualityAt(results, i) == quality_score(results[i].chunk, results[i].score)

\* C3: with no candidate, or a top score below the query's threshold, the
\* outcome is the Fallback response, not confident, and no chunk is returned,
\* whatever the band and the quality scores are.
C3_HardGate ==
    (sout # None /\ (sresults = <<>> \/ sresults[1].score < GateThreshold(sq)))
    => /\ sout[1].answer = FALLBACK_RESPONSE
       /\ sout[1].is_confident = FALSE
       /\ sout[1].answer \notin Range(chunks)

\* C3 witness: the gate refused a top score that lies inside the near-top band.
C3_Witness ==
    /\ sout # None
    /\ sresults # <<>>
    /\ sresults[1].score < GateThreshold(sq)
    /\ 1 \in BandOf(sresults, sq)
    /\ sout[1].is_confident = FALSE

\* C4 as stated: every top score that is confident for a query of three or
\* more words is not confident for a query of fewer than three words.
C4_AsStated ==
    (sout # None /\ WordCount(sq) >= 3 /\ sout[1].is_confident)
    => \A q \in SelectQueries :
          WordCount(q) < 3 => ~select_best_answer(sresults, q).is_confident

\* C4 amended: a top score that is confident for a query of three or more
\* words is not confident for a query of fewer than three words exactly when it
\* is below the strict threshold; from the strict threshold on it is confident
\* for both.
C4_ThresholdSensitivity ==
    (sout # None /\ WordCount(sq) >= 3 /\ sout[1].is_confident)
    => \A q \in SelectQueries :
          WordCount(q) < 3 =>
             (select_best_answer(sresults, q).is_confident
                <=> sresults[1].score >= STRICT_THRESHOLD)

\* C4 witness: a score confident for the long query and refused for a short one.
C4_Witness ==
    /\ sout # None
    /\ WordCount(sq) >= 3
    /\ sout[1].is_confident
    /\ sresults[1].score < STRICT_THRESHOLD
    /\ \E q \in SelectQueries :
          WordCount(q) < 3 /\ ~select_best_answer(sresults, q).is_confident

\* C9: a confident outcome returns a supplied candidate of the near-top band
\* whose quality score is the band's highest, and the first such candidate in
\* the list's descending-similarity order.
C9_BestQualityFirst ==
    (sout # None /\ sout[1].is_confident)
    => \E i \in BandOf(sresults, sq) :
          /\ sout[1].answer = sresults[i].chunk
          /\ \A j \in BandOf(sresults, sq) :
                /\ QualityAt(sresults, j) <= QualityAt(sresults, i)
                /\ j < i => QualityAt(sresults, j) < QualityAt(sresults, i)

\* C9 witness: two band candidates tie on the highest quality score and the
\* earlier one, which is not the top-similarity candidate, is returned.
C9_Witness ==
    /\ sout # None
    /\ sout[1].is_confident
    /\ \E i, j \in BandOf(sresults, sq) :
          /\ 1 < i /\ i < j
          /\ QualityAt(sresults, i) = QualityAt(sresults, j)
          /\ \A k \in BandOf(sresults, sq) : QualityAt(sresults, k) <= QualityAt(sresults, i)
          /\ sout[1].answer = sresults[i].chunk

====
